---- MODULE Spec2Model ----
(***************************************************************************)
(* Arbitrage graph engine of bin/arb (strategy/graph_path_finder.rs):      *)
(* graph construction from a DEX discovery capability, Bellman-Ford        *)
(* negative-cycle detection, cycle extraction and conversion to paths.     *)
(***************************************************************************)
EXTENDS Integers, Sequences, FiniteSets, TLC

VARIABLES
    dex_searcher,   \* the discovery capability: token type -> list of adapters
    nodes,          \* ArbitrageGraph.nodes : HashSet<Node>
    edges,          \* ArbitrageGraph.edges : HashMap<Node, Vec<Edge>> (<<>> = no entry)
    pc,             \* position inside find_arbitrage_paths / ArbitrageGraph::new
    visited,        \* build_graph: local visited set
    queue,          \* build_graph: local work stack (Vec, popped from the end)
    sui_dexes,      \* ArbitrageGraph::new: adapters still to iterate in the widening loop
    start_token,    \* argument of find_arbitrage_paths
    pool_id,        \* argument of find_arbitrage_paths (None or an object id)
    cycles,         \* result of find_arbitrage_opportunities
    paths,          \* result of find_arbitrage_paths
    fallible,       \* whether the discovery capability can fail at all
    failures,       \* number of discovery calls that failed so far
    root_failed,    \* the first discovery call for the root inside build_graph failed
    query_failed,   \* the direct discovery call of ArbitrageGraph::new failed
    primary_nodes,  \* nodes as they were when the primary pass returned
    primary_edges,  \* edges as they were when the primary pass returned
    widened         \* roots of the widening passes run so far

vars == <<dex_searcher, nodes, edges, pc, visited, queue, sui_dexes, start_token,
          pool_id, cycles, paths, fallible, failures, root_failed, query_failed,
          primary_nodes, primary_edges, widened>>

----------------------------------------------------------------------------
(* Bounds of the model *)

\* most adapters the discovery capability knows in total
MaxDexes == 5

\* most discovery calls that fail during one find_arbitrage_paths call
MaxFailures == 2

----------------------------------------------------------------------------
(* Token types, adapters *)

SUI_COIN_TYPE == "0x2::sui::SUI"
SUI_LONG_TYPE == "0x0000000000000000000000000000000000000000000000000000000000000002::sui::SUI"

Tokens == {SUI_COIN_TYPE, SUI_LONG_TYPE, "USDC", "CETUS"}

\* utils::coin::is_native_coin
NativeCoins == {SUI_COIN_TYPE, SUI_LONG_TYPE}
is_native_coin(token_type) == token_type \in NativeCoins

None == <<>>
Some(x) == <<x>>

\* A Dex adapter: input token, output token, and the id of the pool behind it
\* (both directions of one pool share the pool's object id).
Dex(a, b) == [coin_in |-> a, coin_out |-> b, object_id |-> {a, b}]
Dexes == {Dex(a, b) : a \in Tokens, b \in Tokens} \ {Dex(a, a) : a \in Tokens}
UnknownPool == {"0xdead"}

\* Edge { from, to, dex, weight }
Weight == -1
Edge(node, dex) == [from |-> node, to |-> dex.coin_out, dex |-> dex, weight |-> Weight]

RECURSIVE Orderings(_)
Orderings(S) ==
    IF S = {} THEN {<<>>}
    ELSE UNION {{<<x>> \o r : r \in Orderings(S \ {x})} : x \in S}

RECURSIVE SubsetsUpTo(_, _)
SubsetsUpTo(S, n) ==
    IF n = 0 \/ S = {} THEN {{}}
    ELSE LET x == CHOOSE y \in S : TRUE
         IN SubsetsUpTo(S \ {x}, n) \cup {T \cup {x} : T \in SubsetsUpTo(S \ {x}, n - 1)}

Range(s) == {s[i] : i \in 1..Len(s)}

RECURSIVE Reverse(_)
Reverse(s) == IF s = <<>> THEN <<>> ELSE Append(Reverse(Tail(s)), Head(s))

\* The keys of the edges map
Keys(es) == {n \in DOMAIN es : es[n] # <<>>}

----------------------------------------------------------------------------
(* Bellman-Ford negative-cycle detection (pure) *)

\* f64::INFINITY: every finite distance of the model is <= 0, so 1 stands
\* above all of them and `new_dist < to_dist` reads as in the code.
Infinity == 1

\* fn extract_cycle: walk the predecessor links back from `current`
RECURSIVE walk_predecessors(_, _, _, _)
walk_predecessors(current, seen, cycle, predecessors) ==
    IF current \in seen THEN cycle
    ELSE IF predecessors[current] = <<>> THEN cycle
    ELSE walk_predecessors(predecessors[current][1], seen \cup {current},
                           Append(cycle, predecessors[current][2]), predecessors)

\* the validity test of extract_cycle, on the edges as collected (backwards)
valid_cycle(cycle) ==
    Len(cycle) > 1 /\ cycle[1].from = cycle[Len(cycle)].to

extract_cycle(node, predecessors) ==
    LET cycle == walk_predecessors(node, {}, <<>>, predecessors)
    IN IF valid_cycle(cycle) THEN Reverse(cycle) ELSE <<>>

\* a relaxation test that also takes equal distances
relaxable_or_equal(new_dist, to_dist) == new_dist <= to_dist

\* the relaxation test
relaxable(new_dist, to_dist) == new_dist < to_dist

\* inner loop of a relaxation pass: the edges of one node, node_dist read once
RECURSIVE relax_edges(_, _, _, _, _)
relax_edges(es, i, node, node_dist, st) ==
    IF i > Len(es) THEN st
    ELSE LET edge == es[i]
             to_dist == st.distances[edge.to]
             new_dist == node_dist + edge.weight
         IN IF relaxable(new_dist, to_dist)
            THEN relax_edges(es, i + 1, node, node_dist,
                     [distances |-> [st.distances EXCEPT ![edge.to] = new_dist],
                      predecessors |-> [st.predecessors EXCEPT ![edge.to] = <<node, edge>>],
                      updated |-> TRUE])
            ELSE relax_edges(es, i + 1, node, node_dist, st)

\* one relaxation pass: `for (node, edges) in &self.edges`, in iteration order
RECURSIVE relax_pass(_, _, _, _)
relax_pass(es, order, k, st) ==
    IF k > Len(order) THEN st
    ELSE LET node == order[k]
             node_dist == st.distances[node]
         IN IF node_dist = Infinity
            THEN relax_pass(es, order, k + 1, st)
            ELSE relax_pass(es, order, k + 1, relax_edges(es[node], 1, node, node_dist, st))

\* `for _ in 0..node_count - 1` with the early break on a pass without update
RECURSIVE relax_passes(_, _, _, _)
relax_passes(es, order, remaining, st) ==
    IF remaining = 0 THEN st
    ELSE LET after == relax_pass(es, order, 1, [st EXCEPT !.updated = FALSE])
         IN IF ~after.updated THEN after
            ELSE relax_passes(es, order, remaining - 1, after)

\* detection pass, inner loop: one cycle pushed per still-relaxable edge whose
\* predecessor walk is accepted
RECURSIVE detect_edges(_, _, _, _, _)
detect_edges(es, i, node_dist, st, found) ==
    IF i > Len(es) THEN found
    ELSE LET edge == es[i]
             to_dist == st.distances[edge.to]
             new_dist == node_dist + edge.weight
             cycle == extract_cycle(edge.to, st.predecessors)
         IN IF relaxable(new_dist, to_dist) /\ cycle # <<>>
            THEN detect_edges(es, i + 1, node_dist, st, Append(found, cycle))
            ELSE detect_edges(es, i + 1, node_dist, st, found)

RECURSIVE detect_pass(_, _, _, _, _)
detect_pass(es, order, k, st, found) ==
    IF k > Len(order) THEN found
    ELSE LET node == order[k]
             node_dist == st.distances[node]
         IN IF node_dist = Infinity
            THEN detect_pass(es, order, k + 1, st, found)
            ELSE detect_pass(es, order, k + 1, st,
                             detect_edges(es[node], 1, node_dist, st, found))

\* pub fn find_arbitrage_opportunities(&self, start_token) -> Vec<Vec<Edge>>
\* `order` is the order in which the HashMap `edges` yields its keys; the map
\* is not modified during the call, so every pass iterates it the same way.
find_arbitrage_opportunities(ns, es, start, order) ==
    IF start \notin ns THEN <<>>
    ELSE LET init == [distances |-> [n \in ns |-> IF n = start THEN 0 ELSE Infinity],
                      predecessors |-> [n \in ns |-> <<>>],
                      updated |-> FALSE]
             relaxed == relax_passes(es, order, Cardinality(ns) - 1, init)
         IN detect_pass(es, order, 1, relaxed, <<>>)

\* pub fn cycle_to_path: project each edge to its adapter, order kept
cycle_to_path(cycle) == [i \in 1..Len(cycle) |-> cycle[i].dex]

\* Path::contains_pool: some hop's object id is the pool id
contains_pool(path, pool) == \E i \in 1..Len(path) : Some(path[i].object_id) = pool

\* a filter that ignores pool_id
keep_every_path(path, pool) == TRUE

\* the pool_id filter of find_arbitrage_paths
keep_path(path, pool) == IF pool # None THEN contains_pool(path, pool) ELSE TRUE

RECURSIVE convert_cycles(_, _, _)
convert_cycles(cs, i, pool) ==
    IF i > Len(cs) THEN <<>>
    ELSE LET path == cycle_to_path(cs[i])
         IN IF keep_path(path, pool)
            THEN <<path>> \o convert_cycles(cs, i + 1, pool)
            ELSE convert_cycles(cs, i + 1, pool)

----------------------------------------------------------------------------
(* Graph construction *)

\* the output tokens of a discovery response, in order
out_tokens(dexes) == [i \in 1..Len(dexes) |-> dexes[i].coin_out]

\* a construction step that forgets the destination nodes
insert_source_only(ns, token_type, dexes) == ns \cup {token_type}

\* build_graph: self.nodes.insert(node) and, per adapter, self.nodes.insert(to_node)
insert_nodes(ns, token_type, dexes) == ns \cup {token_type} \cup Range(out_tokens(dexes))

\* an edge insertion that skips the edges already stored
push_new_edges(es, token_type, dexes) ==
    [es EXCEPT ![token_type] =
        @ \o SelectSeq([i \in 1..Len(dexes) |-> Edge(token_type, dexes[i])],
                       LAMBDA e : e \notin Range(@))]

\* build_graph: self.edges.entry(node).or_insert_with(Vec::new).push(edge), per adapter
push_edges(es, token_type, dexes) ==
    IF dexes = <<>> THEN es
    ELSE [es EXCEPT ![token_type] = @ \o [i \in 1..Len(dexes) |-> Edge(token_type, dexes[i])]]

\* a push with the visited test inverted
push_visited_only(q, dexes, vis) ==
    q \o SelectSeq(out_tokens(dexes), LAMBDA t : t \in vis)

\* build_graph: queue.push(out_token) for each out token not in visited
push_unvisited(q, dexes, vis) ==
    q \o SelectSeq(out_tokens(dexes), LAMBDA t : t \notin vis)

\* a discovery error that is propagated out of build_graph
propagate_discovery_error(position) == "error"

\* build_graph: `Err(_) => continue`, the position after a failed discovery call
on_discovery_error(position) == position

\* One iteration of `while let Some(token_type) = queue.pop()`; the discovery
\* call of the iteration answers or fails. Inside the iteration each
\* destination node is inserted before its edge is pushed.
build_graph_step ==
    /\ pc \in {"primary", "widening"}
    /\ queue # <<>>
    /\ LET token_type == queue[Len(queue)]
           rest == SubSeq(queue, 1, Len(queue) - 1)
       IN IF token_type \in visited
          THEN /\ queue' = rest
               /\ UNCHANGED <<nodes, edges, visited, failures, root_failed, pc>>
          ELSE \E fail \in BOOLEAN :
               /\ fail => (fallible /\ failures < MaxFailures)
               /\ visited' = visited \cup {token_type}
               /\ IF fail
                  THEN /\ nodes' = nodes \cup {token_type}
                       /\ queue' = rest
                       /\ pc' = on_discovery_error(pc)
                       /\ failures' = failures + 1
                       /\ root_failed' = (root_failed \/ (pc = "primary" /\ visited = {}))
                       /\ UNCHANGED edges
                  ELSE /\ nodes' = insert_nodes(nodes, token_type, dex_searcher[token_type])
                       /\ edges' = push_edges(edges, token_type, dex_searcher[token_type])
                       /\ queue' = push_unvisited(rest, dex_searcher[token_type], visited')
                       /\ UNCHANGED <<failures, root_failed, pc>>
    /\ UNCHANGED <<dex_searcher, fallible, sui_dexes, start_token, pool_id, cycles, paths,
                   query_failed, primary_nodes, primary_edges, widened>>

\* build_graph returns Ok(()) once the stack is empty
build_graph_return ==
    /\ pc \in {"primary", "widening"}
    /\ queue = <<>>
    /\ IF pc = "primary"
       THEN /\ pc' = "query"
            /\ primary_nodes' = nodes
            /\ primary_edges' = edges
       ELSE /\ pc' = "widen"
            /\ UNCHANGED <<primary_nodes, primary_edges>>
    /\ UNCHANGED <<dex_searcher, fallible, nodes, edges, visited, queue, sui_dexes, start_token,
                   pool_id, cycles, paths, failures, root_failed, query_failed, widened>>

\* ArbitrageGraph::new: `dex_searcher.find_dexes(&SUI_COIN_TYPE, None).await?`
find_sui_dexes ==
    /\ pc = "query"
    /\ \E fail \in BOOLEAN :
       /\ fail => (fallible /\ failures < MaxFailures)
       /\ IF fail
          THEN /\ pc' = "error"
               /\ failures' = failures + 1
               /\ query_failed' = TRUE
               /\ UNCHANGED sui_dexes
          ELSE /\ pc' = "widen"
               /\ sui_dexes' = dex_searcher[SUI_COIN_TYPE]
               /\ UNCHANGED <<failures, query_failed>>
    /\ UNCHANGED <<dex_searcher, fallible, nodes, edges, visited, queue, start_token, pool_id,
                   cycles, paths, root_failed, primary_nodes, primary_edges, widened>>

\* whether the widening loop re-roots a construction at this adapter's output
widens(dex) == ~is_native_coin(dex.coin_out)

\* ArbitrageGraph::new: one iteration of `for dex in sui_dexes`, or Ok(graph)
widen_next ==
    /\ pc = "widen"
    /\ IF sui_dexes = <<>>
       THEN /\ pc' = "built"
            /\ UNCHANGED <<sui_dexes, visited, queue, widened>>
       ELSE /\ sui_dexes' = Tail(sui_dexes)
            /\ IF widens(Head(sui_dexes))
               THEN /\ pc' = "widening"
                    /\ visited' = {}
                    /\ queue' = <<Head(sui_dexes).coin_out>>
                    /\ widened' = widened \cup {Head(sui_dexes).coin_out}
               ELSE UNCHANGED <<pc, visited, queue, widened>>
    /\ UNCHANGED <<dex_searcher, fallible, nodes, edges, start_token, pool_id, cycles, paths,
                   failures, root_failed, query_failed, primary_nodes, primary_edges>>

\* find_arbitrage_paths: graph.find_arbitrage_opportunities(start_token); the
\* HashMap yields the keys of `edges` in some order
detect_cycles ==
    /\ pc = "built"
    /\ \E start \in Tokens, order \in Orderings(Keys(edges)) :
       /\ start_token' = start
       /\ cycles' = find_arbitrage_opportunities(nodes, edges, start, order)
    /\ pc' = "detected"
    /\ UNCHANGED <<dex_searcher, fallible, nodes, edges, visited, queue, sui_dexes, pool_id, paths,
                   failures, root_failed, query_failed, primary_nodes, primary_edges,
                   widened>>

\* the pool ids a caller may ask for: none, the pool of an adapter of some
\* detected cycle, or a pool that no cycle touches
PoolIds ==
    {None, Some(UnknownPool)}
        \cup UNION {{Some(e.dex.object_id) : e \in Range(cycles[i])} : i \in 1..Len(cycles)}

\* find_arbitrage_paths: convert the cycles to paths, filter by pool_id, Ok(paths)
convert_to_paths ==
    /\ pc = "detected"
    /\ \E pool \in PoolIds :
       /\ pool_id' = pool
       /\ paths' = convert_cycles(cycles, 1, pool)
    /\ pc' = "done"
    /\ UNCHANGED <<dex_searcher, fallible, nodes, edges, visited, queue, sui_dexes, start_token,
                   cycles, failures, root_failed, query_failed, primary_nodes,
                   primary_edges, widened>>

\* the tokens reachable from `from` over the adapters of D
RECURSIVE ReachableOver(_, _)
ReachableOver(D, seen) ==
    LET more == seen \cup {d.coin_out : d \in {x \in D : x.coin_in \in seen}}
    IN IF more = seen THEN seen ELSE ReachableOver(D, more)

\* The discovery capability: each token's adapters, in the order it returns
\* them; it answers a token with adapters that take that token in, and the
\* same way on every call that does not fail. Only adapters of tokens that can be queried at all (those reachable
\* from SUI) are enumerated.
Responses ==
    UNION {
      {[t \in Tokens |->
          CASE t = SUI_COIN_TYPE -> r1
            [] t = SUI_LONG_TYPE -> r2
            [] t = "USDC" -> r3
            [] OTHER -> r4] :
         r1 \in Orderings({d \in D : d.coin_in = SUI_COIN_TYPE}),
         r2 \in Orderings({d \in D : d.coin_in = SUI_LONG_TYPE}),
         r3 \in Orderings({d \in D : d.coin_in = "USDC"}),
         r4 \in Orderings({d \in D : d.coin_in = "CETUS"})}
      : D \in {X \in SubsetsUpTo(Dexes, MaxDexes) :
                 \A d \in X : d.coin_in \in ReachableOver(X, {SUI_COIN_TYPE})}}

InitCommon ==
    /\ dex_searcher \in Responses
    /\ nodes = {SUI_COIN_TYPE}
    /\ edges = [t \in Tokens |-> <<>>]
    /\ pc = "primary"
    /\ visited = {}
    /\ queue = <<SUI_COIN_TYPE>>
    /\ sui_dexes = <<>>
    /\ start_token = SUI_COIN_TYPE
    /\ pool_id = None
    /\ cycles = <<>>
    /\ paths = <<>>
    /\ failures = 0
    /\ root_failed = FALSE
    /\ query_failed = FALSE
    /\ primary_nodes = {}
    /\ primary_edges = [t \in Tokens |-> <<>>]
    /\ widened = {}

\* find_arbitrage_paths over a discovery capability that never fails
Init == InitCommon /\ fallible = FALSE

Next ==
    \/ build_graph_step
    \/ build_graph_return
    \/ find_sui_dexes
    \/ widen_next
    \/ detect_cycles
    \/ convert_to_paths

Spec == Init /\ [][Next]_vars

\* ArbitrageGraph::new (the only fallible part of find_arbitrage_paths) over a
\* discovery capability each call of which may fail
InitFallible == InitCommon /\ fallible = TRUE

NextNew ==
    \/ build_graph_step
    \/ build_graph_return
    \/ find_sui_dexes
    \/ widen_next

SpecNew == InitFallible /\ [][NextNew]_vars

----------------------------------------------------------------------------
(* Notions the properties are stated with *)

\* every adapter the discovery capability knows
KnownDexes == UNION {Range(dex_searcher[t]) : t \in Tokens}

\* the token types reachable from a token by following discovered adapters
DiscoverableFrom(token) == ReachableOver(KnownDexes, {token})

\* the edges stored in the graph, and the nodes reachable over them
StoredEdges(es) == UNION {Range(es[t]) : t \in DOMAIN es}

RECURSIVE GraphReach(_, _)
GraphReach(es, seen) ==
    LET more == seen \cup {e.to : e \in {x \in StoredEdges(es) : x.from \in seen}}
    IN IF more = seen THEN seen ELSE GraphReach(es, more)

Successors(es, n) == {e.to : e \in {x \in StoredEdges(es) : x.from = n}}

\* some directed cycle of the graph can be reached from `start`
CycleReachableFrom(es, start) ==
    \E n \in GraphReach(es, {start}) :
        Successors(es, n) # {} /\ n \in GraphReach(es, Successors(es, n))

Count(seq, x) == Cardinality({i \in 1..Len(seq) : seq[i] = x})

IsPrefix(s, t) == Len(s) <= Len(t) /\ SubSeq(t, 1, Len(s)) = s

Returned == pc \in {"detected", "done"}
Constructed == pc \in {"built", "detected", "done"}

\* the graph is a triangle start -> b -> c -> start with one edge per node
IsTriangle(ns, es, start) ==
    /\ Cardinality(ns) = 3
    /\ start \in ns
    /\ \A n \in ns : Len(es[n]) = 1
    /\ \A n \in Tokens \ ns : es[n] = <<>>
    /\ \E b, c \in ns \ {start} :
        /\ b # c
        /\ es[start][1].to = b /\ es[start][1].from = start
        /\ es[b][1].to = c /\ es[b][1].from = b
        /\ es[c][1].to = start /\ es[c][1].from = c

----------------------------------------------------------------------------
(* Properties *)

\* C1: every cycle returned by find_arbitrage_opportunities has at least two
\* edges and the `from` token of its first edge is the `to` token of its last
\* edge, whatever the iteration order of the edge map.
C1_CyclesClose ==
    Returned =>
        \A i \in 1..Len(cycles) :
            /\ Len(cycles[i]) >= 2
            /\ cycles[i][1].from = cycles[i][Len(cycles[i])].to

\* C2: every Path returned by find_arbitrage_paths is a closed loop through
\* start_token: consecutive hops chain, the first hop takes start_token in and
\* the last hop gives start_token out.
C2_PathsLoopAtStart ==
    pc = "done" =>
        \A i \in 1..Len(paths) :
            /\ \A j \in 1..(Len(paths[i]) - 1) :
                   paths[i][j].coin_out = paths[i][j + 1].coin_in
            /\ paths[i][1].coin_in = start_token
            /\ paths[i][Len(paths[i])].coin_out = start_token

\* C3: on a triangle A -> B -> C -> A of equally weighted negative edges,
\* detection from A returns exactly one cycle, of exactly three edges.
C3_TriangleYieldsOneCycle ==
    (pc = "detected" /\ IsTriangle(nodes, edges, start_token)) =>
        (Len(cycles) = 1 /\ Len(cycles[1]) = 3)

\* C4: when no directed cycle of the graph is reachable from start_token (all
\* weights being -1, that is when no negative cycle is), detection returns
\* the empty list, whatever the iteration order; a start token without
\* outgoing edges is one such case.
C4_NoCycleNoOpportunity ==
    (pc = "detected" /\ ~CycleReachableFrom(edges, start_token)) => cycles = <<>>

C4_Witness ==
    /\ pc = "detected"
    /\ ~CycleReachableFrom(edges, start_token)
    /\ start_token \in nodes
    /\ Cardinality(GraphReach(edges, {start_token})) >= 3
    /\ Cardinality(Keys(edges)) >= 2
    /\ cycles = <<>>

\* C5 as stated: with a discovery capability that never fails the node set of the graph is the
\* set of token types reachable from start_token over discovered adapters.
C5_NodesReachableFromStart ==
    Returned => nodes = DiscoverableFrom(start_token)

\* C5 amended: with a discovery capability that never fails the node set of the graph is the
\* set of token types reachable from SUI_COIN_TYPE, the root the graph is
\* always built from, over discovered adapters (start_token plays no part).
C5_NodesReachableFromSui ==
    Constructed => nodes = DiscoverableFrom(SUI_COIN_TYPE)

C5_Witness ==
    /\ Returned
    /\ start_token # SUI_COIN_TYPE
    /\ Cardinality(nodes) = 3
    /\ nodes = DiscoverableFrom(SUI_COIN_TYPE)

\* C6 as stated: a failure of the very first discovery call for the root is
\* a hard error of find_arbitrage_paths, and nothing else is.
C6_RootFailureIsHardError ==
    /\ root_failed => ~Constructed
    /\ pc = "error" => root_failed

\* C6 amended: find_arbitrage_paths fails exactly when the direct discovery
\* call of ArbitrageGraph::new for SUI_COIN_TYPE (made after the primary pass)
\* fails; a failure of a discovery call inside build_graph, the very first one
\* for the root included, never makes it fail, and build_graph returns only
\* with its work stack emptied.
C6_ErrorIffRootQueryFails ==
    /\ (pc = "error") = query_failed
    /\ pc \notin {"primary", "widening"} => queue = <<>>

C6_Witness ==
    /\ pc = "built"
    /\ root_failed
    /\ ~query_failed
    /\ Keys(edges) # {}

\* C7: for fixed discovery responses the set of cycles returned does not
\* depend on the iteration order of the edge map: every order returns the
\* same set of cycles as the order this call happened to use.
C7_OrderIndependentCycles ==
    pc = "detected" =>
        \A order \in Orderings(Keys(edges)) :
            Range(find_arbitrage_opportunities(nodes, edges, start_token, order))
                = Range(cycles)

\* C8: with pool_id = Some(p) every returned Path has a hop whose object_id
\* is p, and the result is empty when no adapter of any detected cycle has
\* object_id p; with pool_id = None there is exactly one Path per detected
\* cycle, in detection order.
C8_PoolFilter ==
    pc = "done" =>
        /\ pool_id # None =>
            /\ \A i \in 1..Len(paths) :
                   \E j \in 1..Len(paths[i]) : Some(paths[i][j].object_id) = pool_id
            /\ (\A i \in 1..Len(cycles) : \A j \in 1..Len(cycles[i]) :
                    Some(cycles[i][j].dex.object_id) # pool_id) => paths = <<>>
        /\ pool_id = None =>
            /\ Len(paths) = Len(cycles)
            /\ \A i \in 1..Len(cycles) :
                /\ Len(paths[i]) = Len(cycles[i])
                /\ \A j \in 1..Len(cycles[i]) : paths[i][j] = cycles[i][j].dex

C8_Witness ==
    /\ pc = "done"
    /\ pool_id # None
    /\ paths # <<>>
    /\ Len(paths) < Len(cycles)

\* C9: in every state of graph construction, discovery failures included,
\* every stored edge has its `from` and its `to` node in `nodes`, and every
\* key of `edges` is in `nodes`.
C9_EdgesWithinNodes ==
    /\ Keys(edges) \subseteq nodes
    /\ \A e \in StoredEdges(edges) : e.from \in nodes /\ e.to \in nodes

C9_Witness ==
    /\ pc = "widening"
    /\ failures > 0
    /\ Cardinality(StoredEdges(edges)) >= 3
    /\ queue # <<>>

\* C10: with a discovery capability that never fails the widening passes add no node and no
\* new (from, to, adapter) edge to the graph of the primary pass; they only
\* append copies of edges already stored, and every node reachable from a
\* widened token ends with each of its outgoing edges stored at least twice.
C10_WideningOnlyDuplicates ==
    pc \in {"widen", "widening", "built"} =>
        /\ nodes = primary_nodes
        /\ \A t \in Tokens :
            /\ IsPrefix(primary_edges[t], edges[t])
            /\ Range(edges[t]) = Range(primary_edges[t])
        /\ pc = "built" =>
            \A w \in widened : \A t \in DiscoverableFrom(w) :
                \A e \in Range(edges[t]) : Count(edges[t], e) >= 2

C10_Witness ==
    /\ pc = "built"
    /\ widened # {}
    /\ \E t \in Tokens : edges[t] # <<>> /\ edges[t] = primary_edges[t]
    /\ \E t \in Tokens : Len(edges[t]) > Len(primary_edges[t])

====
